---- MODULE Spec2Model ----
(***************************************************************************)
(* Phase-control heater driver of the bioreactor controller.               *)
(*                                                                         *)
(*   HeaterController  pico/pico_complete/heater_controller (history       *)
(*                     snapshot 20240915214843) driven by CommandHandler   *)
(*                     pico/pico_complete/command_handler.py               *)
(*   AC_Heater         ac_heater.py, the stand-alone driver with the       *)
(*                     self-adjusting debounce                             *)
(*   AutoTuningPIDController                                               *)
(*                     pico/pico_complete/auto_tuning_pid (history         *)
(*                     snapshot 20240915214837); temperatures in           *)
(*                     hundredths of a degree, gains in thousandths        *)
(*                                                                         *)
(* Time is an integer number of units of 12.5 microseconds, so that the    *)
(* literals of the source are integers: 0.01 s = 800, 0.005 s = 400,       *)
(* 0.0001 s = 8.  Every clock reading is a multiple of 20 units and every  *)
(* duty cycle a multiple of 10, which makes cycle_time / 2,                *)
(* 0.1 * ac_half_cycle_time and (1 - duty_cycle / 100) * ac_half_cycle_time*)
(* exact in integer arithmetic.                                            *)
(*                                                                         *)
(* The tasks are asyncio coroutines: the code between two awaits runs      *)
(* without interruption, so one action is one such stretch of code and pc  *)
(* names the await the task is suspended at.  time.monotonic() is taken    *)
(* to read the board's clock (heater_controller does not import time; the  *)
(* model binds the name to the clock as ac_heater.py does).                *)
(***************************************************************************)
EXTENDS Integers, Sequences, FiniteSets, TLC

VARIABLES
    now,                \* time.monotonic(), the board's clock
    zero_cross_count,   \* countio.Counter(zero_cross_pin).count, counted by hardware
    heater,             \* the HeaterController object
    pid_controller,     \* heater_controller.pid_controller
    zc,                 \* locals and position of HeaterController.zero_cross_task
    ceiling,            \* history: what happened since the last SET_HEATER_DUTY
    ac,                 \* the AC_Heater object
    acz,                \* locals and position of AC_Heater.zero_cross_task
    fn,                 \* argument/result cell of the phase-delay computation
    tuner,              \* the AutoTuningPIDController object and the position of auto_tune
    loop,               \* position of control_loop and the serial channel it reads
    hyst,               \* the experimental program's heater and its maintain_temperature
    sd,                 \* the SCD30's data_available flag and send_sensor_data
    pulses              \* history: how many times each control pin was set True

vars == <<now, zero_cross_count, heater, pid_controller, zc, ceiling, ac, acz, fn, tuner,
          loop, hyst, sd, pulses>>

envVars == <<now, zero_cross_count>>
hcVars == <<heater, pid_controller, zc, ceiling>>
acVars == <<ac, acz>>

----------------------------------------------------------------------------
(* Program constants *)

DefaultHalfCycle == 800
InitialDebounce == 400
PulseWidth == 8
DefaultMaxDuty == 30
DefaultTemperature == 43
TurnOnDefaultDuty == 100

(* Bounds *)

MaxEdges == 3
MaxPeriods == 2

EdgeSpacing == DefaultHalfCycle
BounceGap == InitialDebounce \div 20
T0 == DefaultHalfCycle

ClockReadings ==
    { T0 + (EdgeSpacing * b) + (BounceGap * a) : a \in 0..1, b \in 0..MaxPeriods }

DutyInputs == {-10, 0, 50, 150}
MaxDutyInputs == {-10, 10, 150}
TempInputs == {45}

Commands ==
    [tag : {"SET_HEATER_TEMP"}, numeric : {TRUE}, arg : TempInputs]
    \cup [tag : {"SET_HEATER_DUTY"}, numeric : {TRUE}, arg : MaxDutyInputs]
    \cup [tag : {"SET_HEATER_TEMP", "SET_HEATER_DUTY"}, numeric : {FALSE}, arg : {0}]
    \cup [tag : {"HEATER_ON", "HEATER_OFF", "INVALID"}, numeric : {FALSE}, arg : {0}]

----------------------------------------------------------------------------
(* Pure computations *)

Min(a, b) == IF a <= b THEN a ELSE b

\* cycle_time / 2
HalfCycle(cycle_time) == cycle_time \div 2

\* 0.1 * ac_half_cycle_time
DebounceTime(half) == half \div 10

PhaseDelay_Inverted(duty, half) == ((100 + duty) * half) \div 100

\* (1 - duty_cycle / 100) * ac_half_cycle_time
PhaseDelay(duty, half) == ((100 - duty) * half) \div 100

ClampDuty_NoCap(duty, max) == duty

\* min(duty_cycle, self.max_duty_cycle)
ClampDuty(duty, max) == Min(duty, max)

NewEdge_Always(count, previous_count) == TRUE

\* if self.zero_cross.count > previous_count:
NewEdge(count, previous_count) == count > previous_count

HeaterIsOn_Always(h) == TRUE

HeaterIsOn_Duty(h) == h.state \/ h.duty_cycle > 0

\* if self.state:
HeaterIsOn(h) == h.state

TurnOn_WithDuty(h) == [h EXCEPT !.state = TRUE, !.duty_cycle = TurnOnDefaultDuty]

\* HeaterController.turn_on / turn_off: self.state = True / False, and a log line
TurnOn(h) == [h EXCEPT !.state = TRUE]

TurnOff(h) == [h EXCEPT !.state = FALSE]

UnitsPerSecond == 100 * DefaultHalfCycle

\* experimental_heat_integration: default_duty_cycle, temperature_hysteresis
\* (hundredths of a degree), and `retries = 3` of send_sensor_data
DefaultDutyCycle == 30
TemperatureHysteresis == 50
SensorRetries == 3

\* AC_Heater.turn_on(duty_cycle) of the experimental program: set_duty_cycle
\* ignores a value outside 0..100
HystTurnOn(h, duty_cycle) ==
    [h EXCEPT !.duty_cycle = IF 0 <= duty_cycle /\ duty_cycle <= 100 THEN duty_cycle ELSE @,
              !.state = TRUE]

HystTurnOff(h) == [h EXCEPT !.state = FALSE]

\* one pass of maintain_temperature's loop on the reading current_temp, up to
\* its sleep (lines 203-214)
Hysteresis(h, current_temp) ==
    LET target_temp == 100 * DefaultTemperature
    IN  IF current_temp < target_temp - TemperatureHysteresis
        THEN IF ~h.state THEN HystTurnOn(h, DefaultDutyCycle) ELSE h
        ELSE IF current_temp >= target_temp + TemperatureHysteresis
        THEN IF h.state THEN HystTurnOff(h) ELSE h
        ELSE h

\* A time in quarter milliseconds (every clock reading is a multiple of a
\* quarter millisecond)
QuarterMillis(t) == t \div (UnitsPerSecond \div 4000)

\* PIDController(Kp=2.0, Ki=0.1, Kd=0.05, setpoint=default_temperature), the
\* gains in thousandths
PidKp == 2000
PidKi == 100
PidKd == 50

\* `return 0`
ZeroOutput == [P |-> 0, I |-> 0, D |-> [num |-> 0, den |-> 1]]

\* PIDController.__init__ at clock reading t: integral, prev_error and
\* prev_time, what the last compute call returned (output), and how many
\* times compute and reset_integral have been called; run is a history
\* field, the number of compute calls in a row, the first of them finding
\* integral 0, that had one and the same error and elapsed time.  An output is
\* kept as its three terms P, I and D, the D term as the fraction the code
\* divides, since the terms have no common unit in integers.
FreshPid(Kp, Ki, Kd, setpoint, t) ==
    [Kp |-> Kp, Ki |-> Ki, Kd |-> Kd, setpoint |-> setpoint, integral |-> 0,
     prev_error |-> 0, prev_time |-> t, output |-> ZeroOutput, calls |-> 0,
     resets |-> 0, run |-> [n |-> 0, error |-> 0, dt |-> 0]]

ResetIntegral_WithError(p) == [p EXCEPT !.integral = 0, !.prev_error = 0]

\* PIDController.reset_integral: self.integral = 0
ResetIntegral(p) == [p EXCEPT !.integral = 0]

Compute_RejectNegative(p, current_value, current_time) ==
    LET error == (100 * p.setpoint) - current_value
        delta_time == QuarterMillis(current_time - p.prev_time)
        integral == p.integral + (error * delta_time)
    IN  IF delta_time < 0
        THEN [p EXCEPT !.output = ZeroOutput]
        ELSE [p EXCEPT !.integral = integral, !.prev_error = error,
                       !.prev_time = current_time,
                       !.output = [P |-> p.Kp * error, I |-> p.Ki * integral,
                                   D |-> [num |-> p.Kd * (error - p.prev_error),
                                          den |-> delta_time]]]

Compute_StampOnReject(p, current_value, current_time) ==
    LET error == (100 * p.setpoint) - current_value
        delta_time == QuarterMillis(current_time - p.prev_time)
        integral == p.integral + (error * delta_time)
    IN  IF delta_time <= 0
        THEN [p EXCEPT !.output = ZeroOutput, !.prev_time = current_time]
        ELSE [p EXCEPT !.integral = integral, !.prev_error = error,
                       !.prev_time = current_time,
                       !.output = [P |-> p.Kp * error, I |-> p.Ki * integral,
                                   D |-> [num |-> p.Kd * (error - p.prev_error),
                                          den |-> delta_time]]]

Compute_NoAccumulate(p, current_value, current_time) ==
    LET error == (100 * p.setpoint) - current_value
        delta_time == QuarterMillis(current_time - p.prev_time)
        integral == error * delta_time
    IN  IF delta_time <= 0
        THEN [p EXCEPT !.output = ZeroOutput]
        ELSE [p EXCEPT !.integral = integral, !.prev_error = error,
                       !.prev_time = current_time,
                       !.output = [P |-> p.Kp * error, I |-> p.Ki * integral,
                                   D |-> [num |-> p.Kd * (error - p.prev_error),
                                          den |-> delta_time]]]

\* PIDController.compute(current_value), current_time what time.monotonic()
\* gives inside it; current_value in hundredths of a degree, delta_time in
\* quarter milliseconds (to stay within 32-bit integers)
Compute(p, current_value, current_time) ==
    LET error == (100 * p.setpoint) - current_value
        delta_time == QuarterMillis(current_time - p.prev_time)
        integral == p.integral + (error * delta_time)
    IN  IF delta_time <= 0
        THEN [p EXCEPT !.output = ZeroOutput]
        ELSE [p EXCEPT !.integral = integral, !.prev_error = error,
                       !.prev_time = current_time,
                       !.output = [P |-> p.Kp * error, I |-> p.Ki * integral,
                                   D |-> [num |-> p.Kd * (error - p.prev_error),
                                          den |-> delta_time]]]

----------------------------------------------------------------------------
(* AutoTuningPIDController: values and methods.  Temperatures are in        *)
(* hundredths of a degree, gains in thousandths, times in clock units.      *)

MinCriticalGain == 50000
MaxCriticalGain == 200000
GainIncreaseRate == 11      \* tenths
GainDecreaseRate == 9       \* tenths
OscillationThreshold == 5
ForceStepSize == 100
InitialKp == 1000

Max(a, b) == IF a > b THEN a ELSE b
Abs(a) == IF a < 0 THEN -a ELSE a

\* None, and a number
NoValue == [set |-> FALSE, val |-> 0]
Some(v) == [set |-> TRUE, val |-> v]

FreshCriticalGain_Number == Some(MinCriticalGain)

\* self.critical_gain = None
FreshCriticalGain == NoValue

\* the object after __init__; samples, calls, adjusts, last, log, detected,
\* period and error record what the calls made so far took and gave back
FreshTuner ==
    [pc |-> "idle", setpoint |-> 0, Kp |-> InitialKp, Ki |-> 0, Kd |-> 0,
     critical_gain |-> FreshCriticalGain, critical_period |-> NoValue,
     oscillation_data |-> <<>>, tuning_complete |-> FALSE,
     result |-> [ok |-> FALSE, Kp |-> 0, Ki |-> 0, Kd |-> 0],
     samples |-> 0, calls |-> 0, adjusts |-> 0,
     last |-> [set |-> FALSE, time |-> 0, temp |-> 0], log |-> <<>>,
     detected |-> FALSE, period |-> NoValue, error |-> FALSE]

ForceOscillation_Skipped(h, step_size) == h

\* force_oscillation(step_size): self.heater_controller.set_duty_cycle(step_size)
ForceOscillation(h, step_size) ==
    [h EXCEPT !.duty_cycle = ClampDuty(step_size, h.max_duty_cycle)]

DetectOscillations_FromFirst(data, current_time, temperature_reading) ==
    LET sample == [time |-> current_time, temp |-> temperature_reading]
    IN  IF Len(data) < 2
        THEN [detected |-> FALSE, period |-> NoValue, data |-> Append(data, sample)]
        ELSE LET prev == data[1]
             IN  IF /\ prev.temp > temperature_reading
                    /\ Abs(prev.temp - temperature_reading) > OscillationThreshold
                 THEN [detected |-> TRUE, period |-> Some(current_time - prev.time),
                       data |-> Append(data, sample)]
                 ELSE [detected |-> FALSE, period |-> NoValue, data |-> data]

\* detect_oscillations(temperature_reading) at clock reading current_time:
\* what it returns and what it leaves in oscillation_data
DetectOscillations(data, current_time, temperature_reading) ==
    LET sample == [time |-> current_time, temp |-> temperature_reading]
    IN  IF Len(data) < 2
        THEN [detected |-> FALSE, period |-> NoValue, data |-> Append(data, sample)]
        ELSE LET prev == data[Len(data)]
             IN  IF /\ prev.temp > temperature_reading
                    /\ Abs(prev.temp - temperature_reading) > OscillationThreshold
                 THEN [detected |-> TRUE, period |-> Some(current_time - prev.time),
                       data |-> Append(data, sample)]
                 ELSE [detected |-> FALSE, period |-> NoValue, data |-> data]

\* adjust_critical_gain(oscillation_detected); `None *= rate` raises TypeError
\* and leaves critical_gain as it was
AdjustCriticalGain(gain, oscillation_detected) ==
    IF ~gain.set
    THEN [raised |-> TRUE, gain |-> gain]
    ELSE LET rate == IF oscillation_detected THEN GainDecreaseRate ELSE GainIncreaseRate
             scaled == (gain.val * rate) \div 10
         IN  [raised |-> FALSE,
              gain |-> Some(Min(Max(scaled, MinCriticalGain), MaxCriticalGain))]

\* calculate_pid_parameters(); None and 0 are both false in the `if`.  The
\* gains are computed on the period in quarter milliseconds, and Kp is divided
\* before it is multiplied, to stay within 32-bit integers; the results are
\* exact when Kp is a multiple of 0.04.

CalculatePidParameters_HalfGain(gain, period) ==
    IF gain.set /\ gain.val # 0 /\ period.set /\ period.val # 0
    THEN LET Kp == (5 * gain.val) \div 10
             q == QuarterMillis(period.val)
         IN  [ok |-> TRUE, Kp |-> Kp,
              Ki |-> (2 * Kp * 4000) \div q,
              Kd |-> ((Kp \div 40) * q) \div 800]
    ELSE [ok |-> FALSE, Kp |-> 0, Ki |-> 0, Kd |-> 0]

CalculatePidParameters(gain, period) ==
    IF gain.set /\ gain.val # 0 /\ period.set /\ period.val # 0
    THEN LET Kp == (6 * gain.val) \div 10
             q == QuarterMillis(period.val)
         IN  [ok |-> TRUE, Kp |-> Kp,
              Ki |-> (2 * Kp * 4000) \div q,
              Kd |-> ((Kp \div 40) * q) \div 800]
    ELSE [ok |-> FALSE, Kp |-> 0, Ki |-> 0, Kd |-> 0]

\* the tuner after calculate_pid_parameters(): self.Kp, self.Ki, self.Kd are
\* assigned only on the branch that returns them
ApplyCalculate(tn) ==
    LET c == CalculatePidParameters(tn.critical_gain, tn.critical_period)
    IN  [tn EXCEPT !.result = c,
                   !.Kp = IF c.ok THEN c.Kp ELSE @,
                   !.Ki = IF c.ok THEN c.Ki ELSE @,
                   !.Kd = IF c.ok THEN c.Kd ELSE @]

----------------------------------------------------------------------------
\* HeaterController.__init__ and the start of its zero_cross_task
FreshHeater ==
    [duty_cycle |-> 0, max_duty_cycle |-> DefaultMaxDuty, state |-> FALSE,
     ac_half_cycle_time |-> DefaultHalfCycle, last_zero_cross_time |-> 0,
     control_pin |-> FALSE]

FreshZeroCrossTask ==
    [pc |-> "poll", previous_count |-> 0, cycle_time |-> 0, edge_state |-> FALSE,
     owed |-> 0, phase_delay |-> 0, wake |-> 0]

\* AC_Heater.__init__ and the start of its zero_cross_task
FreshACHeater ==
    [duty_cycle |-> 0, state |-> FALSE, ac_half_cycle_time |-> DefaultHalfCycle,
     debounce_time |-> InitialDebounce, last_zero_cross_time |-> 0,
     control_pin |-> FALSE, raised |-> FALSE]

FreshACZeroCrossTask ==
    [pc |-> "poll", previous_count |-> 0, cycle_time |-> 0, phase_delay |-> 0, wake |-> 0]

InitOthers ==
    /\ now = T0
    /\ zero_cross_count = 0
    /\ heater = FreshHeater
    /\ pid_controller = FreshPid(PidKp, PidKi, PidKd, DefaultTemperature, T0)
    /\ zc = FreshZeroCrossTask
    /\ ceiling = "none"
    /\ ac = FreshACHeater
    /\ acz = FreshACZeroCrossTask
    /\ loop = [pc |-> "gather", serial |-> "none"]
    /\ pulses = [hc |-> 0, ac |-> 0]
    /\ hyst = [pc |-> "start", state |-> FALSE, duty_cycle |-> DefaultDutyCycle,
               temp |-> 0, ticks |-> 0]
    /\ sd = [pc |-> "idle", retries |-> 0, data_available |-> FALSE, seen |-> FALSE,
             outcome |-> "none", sends |-> 0]

InitBase ==
    /\ InitOthers
    /\ tuner = FreshTuner

Init ==
    /\ InitBase
    /\ fn = [half |-> 0, duty |-> 0, done |-> FALSE, phase_delay |-> 0]

----------------------------------------------------------------------------
(* Environment: the clock and the zero-cross counter *)

Tick ==
    /\ \E t \in ClockReadings : t > now /\ now' = t
    /\ UNCHANGED <<zero_cross_count, heater, pid_controller, zc, ceiling, ac, acz, fn, tuner, loop, hyst, sd, pulses>>

Edge ==
    /\ zero_cross_count < MaxEdges
    /\ zero_cross_count' = zero_cross_count + 1
    /\ UNCHANGED <<now, heater, pid_controller, zc, ceiling, ac, acz, fn, tuner, loop, hyst, sd, pulses>>

----------------------------------------------------------------------------
(* HeaterController *)

\* HeaterController.set_duty_cycle(duty_cycle); called by
\* AutoTuningPIDController.force_oscillation and by the temperature task
SetDutyCycle(x) ==
    /\ heater' = [heater EXCEPT !.duty_cycle = ClampDuty(x, heater.max_duty_cycle)]
    /\ ceiling' = IF ceiling = "pending" THEN "clamped" ELSE ceiling
    /\ UNCHANGED <<now, zero_cross_count, pid_controller, zc, ac, acz, fn, tuner, loop, hyst, sd, pulses>>

HandleEffect_ResetOnSetpoint(cmd) ==
    CASE cmd.tag = "SET_HEATER_TEMP" /\ cmd.numeric ->
             /\ pid_controller' = [pid_controller EXCEPT !.setpoint = cmd.arg,
                                                         !.integral = 0]
             /\ UNCHANGED <<heater, ceiling>>
      [] OTHER ->
             UNCHANGED <<heater, pid_controller, ceiling>>

\* What CommandHandler.handle(command) writes, heater commands.  numeric =
\* FALSE is a payload int() cannot parse (or no payload): the exception is
\* caught and logged by the handler, nothing is changed.
HandleEffect(cmd) ==
    CASE cmd.tag = "SET_HEATER_TEMP" /\ cmd.numeric ->
             /\ pid_controller' = [pid_controller EXCEPT !.setpoint = cmd.arg]
             /\ UNCHANGED <<heater, ceiling>>
      [] cmd.tag = "SET_HEATER_DUTY" /\ cmd.numeric ->
             /\ heater' = [heater EXCEPT !.max_duty_cycle = cmd.arg]
             /\ ceiling' = IF cmd.arg < heater.duty_cycle THEN "pending" ELSE "none"
             /\ UNCHANGED pid_controller
      [] cmd.tag = "HEATER_ON" ->
             /\ heater' = TurnOn(heater)
             /\ UNCHANGED <<pid_controller, ceiling>>
      [] cmd.tag = "HEATER_OFF" ->
             /\ heater' = TurnOff(heater)
             /\ UNCHANGED <<pid_controller, ceiling>>
      [] OTHER ->
             UNCHANGED <<heater, pid_controller, ceiling>>

\* CommandHandler.handle(command)
Handle(cmd) ==
    /\ HandleEffect(cmd)
    /\ UNCHANGED <<now, zero_cross_count, zc, ac, acz, fn, tuner, loop, hyst, sd, pulses>>

\* HeaterController.zero_cross_task, from the count test to the next await
ZeroCrossPoll ==
    /\ zc.pc = "poll"
    /\ IF NewEdge(zero_cross_count, zc.previous_count)
       THEN LET current_time == now
                seen == heater.last_zero_cross_time # 0
                cycle_time == IF seen THEN current_time - heater.last_zero_cross_time
                              ELSE zc.cycle_time
                half == IF seen THEN HalfCycle(cycle_time) ELSE heater.ac_half_cycle_time
                on == HeaterIsOn(heater)
                phase_delay == PhaseDelay(heater.duty_cycle, half)
            IN  /\ heater' = [heater EXCEPT !.ac_half_cycle_time = half,
                                            !.last_zero_cross_time = current_time]
                /\ zc' = IF on
                         THEN [pc |-> "delay", previous_count |-> zero_cross_count,
                               cycle_time |-> cycle_time, edge_state |-> heater.state,
                               owed |-> 0, phase_delay |-> phase_delay,
                               wake |-> current_time + phase_delay]
                         ELSE [pc |-> "poll", previous_count |-> zero_cross_count,
                               cycle_time |-> cycle_time, edge_state |-> heater.state,
                               owed |-> 0, phase_delay |-> 0, wake |-> 0]
       ELSE UNCHANGED <<heater, zc>>
    /\ UNCHANGED <<now, zero_cross_count, pid_controller, ceiling, ac, acz, fn, tuner, loop, hyst, sd, pulses>>

\* await asyncio.sleep(phase_delay) returns; control_pin.value = True
ZeroCrossFireStep ==
    /\ zc.pc = "delay"
    /\ now >= zc.wake
    /\ heater' = [heater EXCEPT !.control_pin = TRUE]
    /\ zc' = [zc EXCEPT !.pc = "pulse", !.wake = now + PulseWidth]
    /\ UNCHANGED <<now, zero_cross_count, pid_controller, ceiling, ac, acz, fn, tuner, loop, hyst, sd>>

ZeroCrossFire == ZeroCrossFireStep /\ UNCHANGED pulses

\* await asyncio.sleep(0.0001) returns; control_pin.value = False
ZeroCrossEndPulse ==
    /\ zc.pc = "pulse"
    /\ now >= zc.wake
    /\ heater' = [heater EXCEPT !.control_pin = FALSE]
    /\ zc' = [zc EXCEPT !.pc = "poll", !.phase_delay = 0, !.wake = 0]
    /\ UNCHANGED <<now, zero_cross_count, pid_controller, ceiling, ac, acz, fn, tuner, loop, hyst, sd, pulses>>

\* A statement of the try block raises after the count test (the first one
\* that can is time.monotonic(), whose module the file never imports): the
\* handler logs the traceback and raises RuntimeError, which ends the task.
\* Neither the handler nor the statement before it writes to the heater.
ZeroCrossRaise ==
    /\ zc.pc = "poll"
    /\ zero_cross_count > zc.previous_count
    /\ zc' = [zc EXCEPT !.pc = "halted"]
    /\ UNCHANGED <<now, zero_cross_count, heater, pid_controller, ceiling, ac, acz, fn, tuner, loop, hyst, sd, pulses>>

Next ==
    \/ Tick
    \/ Edge
    \/ \E x \in DutyInputs : SetDutyCycle(x)
    \/ \E cmd \in Commands : Handle(cmd)
    \/ ZeroCrossPoll
    \/ ZeroCrossFire
    \/ ZeroCrossEndPulse
    \/ ZeroCrossRaise

Spec == Init /\ [][Next]_vars

(* The driver on its own: the zero-cross task, the detector, the clock and   *)
(* the HEATER_ON / HEATER_OFF commands, with the scheduling the event loop   *)
(* gives: a task whose sleep has expired is resumed, and time passes.        *)

\* The detector counts an edge; zc.owed records, for the properties only,
\* how many edges counted while the heater was enabled the task has not yet
\* looked at.
DriverEdge ==
    /\ zero_cross_count < MaxEdges
    /\ zero_cross_count' = zero_cross_count + 1
    /\ zc' = [zc EXCEPT !.owed = IF heater.state THEN @ + 1 ELSE @]
    /\ UNCHANGED <<now, heater, pid_controller, ceiling, ac, acz, fn, tuner, loop, hyst, sd, pulses>>

SwitchCommands == {cmd \in Commands : cmd.tag \in {"HEATER_ON", "HEATER_OFF"}}

NextDriver ==
    \/ Tick
    \/ DriverEdge
    \/ \E cmd \in SwitchCommands : Handle(cmd)
    \/ ZeroCrossPoll
    \/ ZeroCrossFire
    \/ ZeroCrossEndPulse
    \/ ZeroCrossRaise

SpecDriver ==
    /\ Init
    /\ [][NextDriver]_vars
    /\ WF_vars(Tick)
    /\ WF_vars(ZeroCrossPoll)
    /\ WF_vars(ZeroCrossFire)
    /\ WF_vars(ZeroCrossEndPulse)

----------------------------------------------------------------------------
(* AC_Heater *)

\* AC_Heater.set_duty_cycle(duty_cycle); raised records that the call ended
\* in ValueError, which propagates to the caller
ACSetDutyCycle(x) ==
    /\ ac' = IF 0 <= x /\ x <= 100
             THEN [ac EXCEPT !.duty_cycle = x, !.raised = FALSE]
             ELSE [ac EXCEPT !.raised = TRUE]
    /\ UNCHANGED <<now, zero_cross_count, heater, pid_controller, zc, ceiling, acz, fn, tuner, loop, hyst, sd, pulses>>

\* AC_Heater.turn_on(duty_cycle=100)
ACTurnOn(x) ==
    /\ ac' = IF 0 <= x /\ x <= 100
             THEN [ac EXCEPT !.duty_cycle = x, !.state = TRUE, !.raised = FALSE]
             ELSE [ac EXCEPT !.raised = TRUE]
    /\ UNCHANGED <<now, zero_cross_count, heater, pid_controller, zc, ceiling, acz, fn, tuner, loop, hyst, sd, pulses>>

\* AC_Heater.turn_off()
ACTurnOff ==
    /\ ac' = [ac EXCEPT !.state = FALSE]
    /\ UNCHANGED <<now, zero_cross_count, heater, pid_controller, zc, ceiling, acz, fn, tuner, loop, hyst, sd, pulses>>

\* AC_Heater.zero_cross_task, from the count test to the next await
ACZeroCrossPoll ==
    /\ acz.pc = "poll"
    /\ IF NewEdge(zero_cross_count, acz.previous_count)
       THEN LET current_time == now
                seen == ac.last_zero_cross_time # 0
                cycle_time == IF seen THEN current_time - ac.last_zero_cross_time
                              ELSE acz.cycle_time
                half == IF seen THEN HalfCycle(cycle_time) ELSE ac.ac_half_cycle_time
                debounce == IF seen THEN DebounceTime(half) ELSE ac.debounce_time
                accepted == current_time - ac.last_zero_cross_time >= debounce
                phase_delay == PhaseDelay(ac.duty_cycle, half)
            IN  /\ ac' = [ac EXCEPT !.ac_half_cycle_time = half,
                                    !.debounce_time = debounce,
                                    !.last_zero_cross_time =
                                        IF accepted THEN current_time ELSE @]
                /\ acz' = IF accepted /\ ac.state
                          THEN [pc |-> "delay", previous_count |-> zero_cross_count,
                                cycle_time |-> cycle_time, phase_delay |-> phase_delay,
                                wake |-> current_time + phase_delay]
                          ELSE [pc |-> "poll",
                                previous_count |-> IF accepted THEN zero_cross_count
                                                   ELSE acz.previous_count,
                                cycle_time |-> cycle_time, phase_delay |-> 0, wake |-> 0]
       ELSE UNCHANGED <<ac, acz>>
    /\ UNCHANGED <<now, zero_cross_count, heater, pid_controller, zc, ceiling, fn, tuner, loop, hyst, sd, pulses>>

\* await asyncio.sleep(phase_delay) returns; control_pin.value = True
ACZeroCrossFireStep ==
    /\ acz.pc = "delay"
    /\ now >= acz.wake
    /\ ac' = [ac EXCEPT !.control_pin = TRUE]
    /\ acz' = [acz EXCEPT !.pc = "pulse", !.wake = now + PulseWidth]
    /\ UNCHANGED <<now, zero_cross_count, heater, pid_controller, zc, ceiling, fn, tuner, loop, hyst, sd>>

ACZeroCrossFire == ACZeroCrossFireStep /\ UNCHANGED pulses

\* await asyncio.sleep(0.0001) returns; control_pin.value = False
ACZeroCrossEndPulse ==
    /\ acz.pc = "pulse"
    /\ now >= acz.wake
    /\ ac' = [ac EXCEPT !.control_pin = FALSE]
    /\ acz' = [acz EXCEPT !.pc = "poll", !.phase_delay = 0, !.wake = 0]
    /\ UNCHANGED <<now, zero_cross_count, heater, pid_controller, zc, ceiling, fn, tuner, loop, hyst, sd, pulses>>

NextAC ==
    \/ Tick
    \/ Edge
    \/ \E x \in DutyInputs : ACSetDutyCycle(x)
    \/ \E x \in DutyInputs \cup {TurnOnDefaultDuty} : ACTurnOn(x)
    \/ ACTurnOff
    \/ ACZeroCrossPoll
    \/ ACZeroCrossFire
    \/ ACZeroCrossEndPulse

SpecAC == Init /\ [][NextAC]_vars

----------------------------------------------------------------------------
(* The phase-delay computation on its own *)

MaxHalfHundreds == 8

HalfInputs == { 100 * k : k \in 1..MaxHalfHundreds }

InitPhase ==
    /\ InitBase
    /\ fn \in [half : HalfInputs, duty : 0..100, done : {FALSE}, phase_delay : {0}]

\* phase_delay = (1 - self.duty_cycle / 100) * self.ac_half_cycle_time
ComputePhaseDelay ==
    /\ ~fn.done
    /\ fn' = [fn EXCEPT !.done = TRUE, !.phase_delay = PhaseDelay(fn.duty, fn.half)]
    /\ UNCHANGED <<now, zero_cross_count, heater, pid_controller, zc, ceiling, ac, acz, tuner, loop, hyst, sd, pulses>>

NextPhase == ComputePhaseDelay

SpecPhase == InitPhase /\ [][NextPhase]_vars

----------------------------------------------------------------------------
(* AutoTuningPIDController.auto_tune.  The call is synchronous: it has no   *)
(* await, so no task runs and no command is handled between its start and   *)
(* its return or raise; commands are handled before and after it.           *)

MaxSamples == 3

TempReadings == {2000, 2030, 2050}

\* what self.heater_controller.get_temperature() gives: a temperature, or an
\* exception (HeaterController itself defines no get_temperature, so with it
\* every read is the exception)
Readings == [ok : {TRUE}, temp : TempReadings] \cup {[ok |-> FALSE, temp |-> 0]}

SetpointInputs == {DefaultTemperature}

\* auto_tune(setpoint) up to the loop test
AutoTuneStart(setpoint) ==
    /\ tuner.pc = "idle"
    /\ tuner' = [tuner EXCEPT !.setpoint = setpoint, !.pc = "sampling"]
    /\ heater' = ForceOscillation(heater, ForceStepSize)
    /\ ceiling' = IF ceiling = "pending" THEN "clamped" ELSE ceiling
    /\ UNCHANGED <<now, zero_cross_count, pid_controller, zc, ac, acz, fn, loop, hyst, sd, pulses>>

\* one pass of the while loop on reading r, detect_oscillations reading the
\* clock as t
SampleStep(tn, r, t) ==
    IF ~r.ok
    THEN [tn EXCEPT !.pc = "raised", !.samples = @ + 1]
    ELSE LET d == DetectOscillations(tn.oscillation_data, t, r.temp)
             a == AdjustCriticalGain(tn.critical_gain, d.detected)
         IN  IF a.raised
             THEN [tn EXCEPT !.oscillation_data = d.data, !.pc = "raised",
                             !.samples = @ + 1]
             ELSE IF d.detected
             THEN ApplyCalculate(
                    [tn EXCEPT !.oscillation_data = d.data, !.critical_gain = a.gain,
                               !.critical_period = d.period, !.tuning_complete = TRUE,
                               !.pc = "tuned", !.samples = @ + 1])
             ELSE [tn EXCEPT !.oscillation_data = d.data, !.critical_gain = a.gain,
                             !.samples = @ + 1]

AutoTuneSampleWith(r, t) ==
    /\ tuner.pc = "sampling"
    /\ ~tuner.tuning_complete
    /\ tuner.samples < MaxSamples
    /\ t >= now
    /\ now' = t
    /\ tuner' = SampleStep(tuner, r, t)
    /\ UNCHANGED <<zero_cross_count, heater, pid_controller, zc, ceiling, ac, acz, fn, loop, hyst, sd, pulses>>

AutoTuneSample == \E r \in Readings, t \in ClockReadings : AutoTuneSampleWith(r, t)

NextTune ==
    \/ \E setpoint \in SetpointInputs : AutoTuneStart(setpoint)
    \/ AutoTuneSample
    \/ tuner.pc # "sampling" /\ \E cmd \in Commands : Handle(cmd)
    \/ tuner.pc # "sampling" /\ Tick

SpecTune == Init /\ [][NextTune]_vars

(* A tuning session next to the tasks of the event loop.  auto_tune is a    *)
(* plain method whose loop has no await: from its call to its return or     *)
(* raise it holds the only thread, and a coroutine (the zero-cross task,    *)
(* the temperature task, command intake) runs before or after it.  The      *)
(* counter and the clock are hardware and go on.                            *)

SchedulerFree_Always == TRUE

SchedulerFree == tuner.pc # "sampling"

\* one tick of the temperature task: it hands a PID output to set_duty_cycle
MaintainTick == \E x \in DutyInputs : SetDutyCycle(x)

TaskZeroCrossPoll == SchedulerFree /\ ZeroCrossPoll

NextSession ==
    \/ \E setpoint \in SetpointInputs : AutoTuneStart(setpoint)
    \/ AutoTuneSample
    \/ Tick
    \/ Edge
    \/ TaskZeroCrossPoll
    \/ SchedulerFree /\ ZeroCrossFire
    \/ SchedulerFree /\ ZeroCrossEndPulse
    \/ SchedulerFree /\ ZeroCrossRaise
    \/ SchedulerFree /\ MaintainTick
    \/ SchedulerFree /\ \E cmd \in SwitchCommands : Handle(cmd)

SpecSession == Init /\ [][NextSession]_vars

(* control_loop from line 115 on: it awaits asyncio.gather of the tasks and *)
(* only then enters the loop that reads commands from the serial channel.   *)
(* What control_loop needs before line 115 (lines 89-113, the tuner among    *)
(* them) is taken to have returned.  gather returns when every task has      *)
(* returned and raises when one raises; an exception leaving control_loop    *)
(* ends asyncio.run and with it every task.                                  *)

\* zero_cross_task is `while True` inside try/except-raise: it has no return
TasksReturned == FALSE

TasksRunning == loop.pc = "gather"

\* a command arrives on the serial channel
SerialArrives ==
    /\ loop.pc # "dead"
    /\ loop.serial = "none"
    /\ \E cmd \in SwitchCommands : loop' = [loop EXCEPT !.serial = cmd.tag]
    /\ UNCHANGED <<now, zero_cross_count, heater, pid_controller, zc, ceiling, ac, acz, fn,
                   tuner, hyst, sd, pulses>>

\* control_loop is resumed: out of gather, by its result or by the exception
\* of a task, or once round the command loop (lines 124-157)
ControlLoopStep ==
    /\ loop.pc \in {"gather", "main"}
    /\ loop.pc = "gather" => (zc.pc = "halted" \/ TasksReturned)
    /\ IF loop.pc = "gather"
       THEN /\ loop' = [loop EXCEPT !.pc = IF zc.pc = "halted" THEN "dead" ELSE "main"]
            /\ UNCHANGED <<heater, pid_controller, ceiling>>
       ELSE IF loop.serial # "none"
       THEN /\ HandleEffect([tag |-> loop.serial, numeric |-> FALSE, arg |-> 0])
            /\ loop' = [loop EXCEPT !.serial = "none"]
       ELSE UNCHANGED <<heater, pid_controller, ceiling, loop, hyst, sd, pulses>>
    /\ UNCHANGED <<now, zero_cross_count, zc, ac, acz, fn, tuner, hyst, sd, pulses>>

\* The tasks gather runs.  The heater is constructed off (line 87) and only a
\* command turns it on, so the zero-cross task started at line 116 finds it
\* off at every edge: its delay and pulse steps are not steps of this loop.
LoopMaintainTick == TasksRunning /\ MaintainTick
LoopZeroCrossPoll == TasksRunning /\ ZeroCrossPoll
LoopZeroCrossRaise == TasksRunning /\ ZeroCrossRaise

NextLoop ==
    \/ Tick
    \/ Edge
    \/ SerialArrives
    \/ ControlLoopStep
    \/ LoopMaintainTick
    \/ LoopZeroCrossPoll
    \/ LoopZeroCrossRaise

SpecLoop ==
    /\ Init
    /\ [][NextLoop]_vars
    /\ WF_vars(Tick)
    /\ WF_vars(ControlLoopStep)
    /\ WF_vars(LoopMaintainTick)
    /\ WF_vars(LoopZeroCrossPoll)

(* PIDController.compute and reset_integral called again and again on the  *)
(* controller control_loop constructs, with the temperature and the clock   *)
(* reading of each call drawn freely: the clock reading may be below or     *)
(* equal to the one before, the case the test at line 52 is written for.    *)

MaxComputes == 2

PidReadings == {100 * (DefaultTemperature - 1), 100 * DefaultTemperature,
                100 * (DefaultTemperature + 1)}

\* the run of equal calls after compute(current_value) at clock reading t
NextRun(p, current_value, t) ==
    LET error == (100 * p.setpoint) - current_value
        delta_time == QuarterMillis(t - p.prev_time)
    IN  IF delta_time <= 0 THEN [n |-> 0, error |-> 0, dt |-> 0]
        ELSE IF p.integral = 0 THEN [n |-> 1, error |-> error, dt |-> delta_time]
        ELSE IF p.run.n > 0 /\ p.run.error = error /\ p.run.dt = delta_time
        THEN [p.run EXCEPT !.n = @ + 1]
        ELSE [n |-> 0, error |-> 0, dt |-> 0]

ComputeCall ==
    /\ pid_controller.calls < MaxComputes
    /\ \E current_value \in PidReadings, t \in ClockReadings :
          /\ now' = t
          /\ pid_controller' = [Compute(pid_controller, current_value, t)
                                  EXCEPT !.calls = @ + 1,
                                         !.run = NextRun(pid_controller, current_value, t)]
    /\ UNCHANGED <<zero_cross_count, heater, zc, ceiling, ac, acz, fn, tuner, loop, hyst, sd, pulses>>

MaxResets == 1

ResetIntegralCall ==
    /\ pid_controller.resets < MaxResets
    /\ pid_controller' = [ResetIntegral(pid_controller)
                            EXCEPT !.resets = @ + 1, !.run = [n |-> 0, error |-> 0, dt |-> 0]]
    /\ UNCHANGED <<now, zero_cross_count, heater, zc, ceiling, ac, acz, fn, tuner, loop, hyst, sd, pulses>>

\* what auto_tune() can return as numbers: the gains calculate_pid_parameters
\* computes from the lowest critical gain and a measured period
MaxTunedTens == 1

TunedGains ==
    {CalculatePidParameters(Some(MinCriticalGain), Some(k * 10 * UnitsPerSecond)) :
         k \in 1..MaxTunedTens}

\* control_loop lines 95-97: pid_controller.Kp = tuned_Kp, .Ki = tuned_Ki,
\* .Kd = tuned_Kd, executed once, on the gains of the constructor
TransferGains ==
    /\ <<pid_controller.Kp, pid_controller.Ki, pid_controller.Kd>> = <<PidKp, PidKi, PidKd>>
    /\ \E c \in TunedGains :
          pid_controller' = [pid_controller EXCEPT !.Kp = c.Kp, !.Ki = c.Ki, !.Kd = c.Kd]
    /\ UNCHANGED <<now, zero_cross_count, heater, zc, ceiling, ac, acz, fn, tuner, loop, hyst, sd, pulses>>

NextPID ==
    \/ ComputeCall
    \/ ResetIntegralCall

\* the calls, with the commands handled and the tuned gains assigned between them
NextPidFrame ==
    \/ ComputeCall
    \/ ResetIntegralCall
    \/ TransferGains
    \/ \E cmd \in Commands : Handle(cmd)

SpecPidFrame == Init /\ [][NextPidFrame]_vars

SpecPID == Init /\ [][NextPID]_vars

(* The control pin of either driver, with every assertion counted.  The     *)
(* program that runs is the one with HeaterController or the one with       *)
(* AC_Heater: a driver takes steps only while the other is as constructed.  *)
(* Besides its own steps a task can be ended from outside, by an exception  *)
(* thrown into it at the await where it is suspended (its cancellation).    *)

HCOnly == ac = FreshACHeater /\ acz = FreshACZeroCrossTask
ACOnly == heater = FreshHeater /\ zc = FreshZeroCrossTask

CountedFire ==
    /\ HCOnly
    /\ ZeroCrossFireStep
    /\ pulses' = [pulses EXCEPT !.hc = @ + 1]

ACCountedFire ==
    /\ ACOnly
    /\ ACZeroCrossFireStep
    /\ pulses' = [pulses EXCEPT !.ac = @ + 1]

\* HeaterController.zero_cross_task ended at the await of its delay or of its
\* pulse: `except Exception` logs and raises, an exception that is not an
\* Exception passes through; neither path writes control_pin
ZeroCrossAbort ==
    /\ HCOnly
    /\ zc.pc \in {"delay", "pulse"}
    /\ zc' = [zc EXCEPT !.pc = "halted"]
    /\ UNCHANGED <<now, zero_cross_count, heater, pid_controller, ceiling, ac, acz, fn, tuner,
                   loop, hyst, sd, pulses>>

\* AC_Heater.zero_cross_task ended the same way: it has no try at all
ACZeroCrossAbort ==
    /\ ACOnly
    /\ acz.pc \in {"delay", "pulse"}
    /\ acz' = [acz EXCEPT !.pc = "halted"]
    /\ UNCHANGED <<now, zero_cross_count, heater, pid_controller, zc, ceiling, ac, fn, tuner,
                   loop, hyst, sd, pulses>>

NextPulse ==
    \/ Tick
    \/ Edge
    \/ HCOnly /\ \E cmd \in SwitchCommands : Handle(cmd)
    \/ HCOnly /\ ZeroCrossPoll
    \/ CountedFire
    \/ HCOnly /\ ZeroCrossEndPulse
    \/ HCOnly /\ ZeroCrossRaise
    \/ ZeroCrossAbort
    \/ ACOnly /\ ACTurnOn(TurnOnDefaultDuty)
    \/ ACOnly /\ ACTurnOff
    \/ ACOnly /\ ACZeroCrossPoll
    \/ ACCountedFire
    \/ ACOnly /\ ACZeroCrossEndPulse
    \/ ACZeroCrossAbort

SpecPulse == Init /\ [][NextPulse]_vars

(* The experimental program: maintain_temperature, the task that switches  *)
(* the heater with hysteresis, and send_sensor_data, a plain function that  *)
(* waits for the CO2 sensor with time.sleep and so holds the event loop     *)
(* from its call to its return.                                              *)

MaxTicks == 3
MaxSends == 2

\* ds18b20.temperature, hundredths of a degree: below, inside and above the
\* band round the target.  A read that raises is logged and the loop comes
\* back to the read with no await, so a pass ends with a read that succeeds.
HystReadings ==
    {(100 * DefaultTemperature) + (k * (TemperatureHysteresis \div 2)) : k \in -3..3}

EventLoopFree == sd.pc = "idle"

\* maintain_temperature from its start to the first sleep: lines 198-199 and
\* the first pass of the loop
MaintainStart ==
    /\ EventLoopFree
    /\ hyst.pc = "start"
    /\ \E current_temp \in HystReadings :
          hyst' = [Hysteresis(HystTurnOn(hyst, DefaultDutyCycle), current_temp)
                     EXCEPT !.pc = "loop", !.temp = current_temp]
    /\ UNCHANGED <<now, zero_cross_count, heater, pid_controller, zc, ceiling, ac, acz, fn,
                   tuner, loop, sd, pulses>>

\* the sleep returns: one more pass of the loop
MaintainLoop ==
    /\ EventLoopFree
    /\ hyst.pc = "loop"
    /\ hyst.ticks < MaxTicks
    /\ \E current_temp \in HystReadings :
          hyst' = [Hysteresis(hyst, current_temp)
                     EXCEPT !.temp = current_temp, !.ticks = @ + 1]
    /\ UNCHANGED <<now, zero_cross_count, heater, pid_controller, zc, ceiling, ac, acz, fn,
                   tuner, loop, sd, pulses>>

\* the SCD30 has a measurement ready
DataReady ==
    /\ ~sd.data_available
    /\ sd' = [sd EXCEPT !.data_available = TRUE]
    /\ UNCHANGED <<now, zero_cross_count, heater, pid_controller, zc, ceiling, ac, acz, fn,
                   tuner, loop, hyst, pulses>>

\* send_sensor_data(): retries = 3
SendStart ==
    /\ sd.pc = "idle"
    /\ sd.sends < MaxSends
    /\ sd' = [sd EXCEPT !.pc = "test", !.retries = SensorRetries, !.seen = FALSE,
                        !.outcome = "none"]
    /\ UNCHANGED <<now, zero_cross_count, heater, pid_controller, zc, ceiling, ac, acz, fn,
                   tuner, loop, hyst, pulses>>

\* `while not scd30.data_available and retries > 0`: into the sleep, or out
\* of the loop to `if retries == 0` and the readout, which takes the
\* measurement (raises: the readout raising, caught and logged)
SendTest ==
    /\ sd.pc = "test"
    /\ IF ~sd.data_available /\ sd.retries > 0
       THEN sd' = [sd EXCEPT !.retries = @ - 1, !.pc = "sleep"]
       ELSE \E raises \in BOOLEAN :
              sd' = [sd EXCEPT !.pc = "idle", !.sends = @ + 1,
                               !.seen = sd.data_available,
                               !.outcome = IF sd.retries = 0 THEN "failed"
                                           ELSE IF raises THEN "error" ELSE "logged",
                               !.data_available = IF sd.retries = 0 \/ raises THEN @
                                                  ELSE FALSE]
    /\ UNCHANGED <<now, zero_cross_count, heater, pid_controller, zc, ceiling, ac, acz, fn,
                   tuner, loop, hyst, pulses>>

\* time.sleep(5) returns
SendWake ==
    /\ sd.pc = "sleep"
    /\ sd' = [sd EXCEPT !.pc = "test"]
    /\ UNCHANGED <<now, zero_cross_count, heater, pid_controller, zc, ceiling, ac, acz, fn,
                   tuner, loop, hyst, pulses>>

NextExperimental ==
    \/ MaintainStart
    \/ MaintainLoop
    \/ DataReady
    \/ SendStart
    \/ SendTest
    \/ SendWake

SpecExperimental == Init /\ [][NextExperimental]_vars

(* The tuner's methods called one at a time on a fresh object *)

MaxCalls == 4
MaxAdjusts == 2

\* detect_oscillations(temp), the clock reading t
DetectCall ==
    /\ tuner.calls < MaxCalls
    /\ \E temp \in TempReadings, t \in ClockReadings :
          /\ t >= now
          /\ now' = t
          /\ LET d == DetectOscillations(tuner.oscillation_data, t, temp)
             IN  tuner' = [tuner EXCEPT !.oscillation_data = d.data,
                                        !.detected = d.detected, !.period = d.period,
                                        !.last = [set |-> TRUE, time |-> t, temp |-> temp],
                                        !.log = Append(@, [time |-> t, temp |-> temp]),
                                        !.calls = @ + 1]
    /\ UNCHANGED <<zero_cross_count, heater, pid_controller, zc, ceiling, ac, acz, fn, loop, hyst, sd, pulses>>

\* adjust_critical_gain(b)
AdjustCall ==
    /\ tuner.adjusts < MaxAdjusts
    /\ \E b \in BOOLEAN :
          LET a == AdjustCriticalGain(tuner.critical_gain, b)
          IN  tuner' = [tuner EXCEPT !.critical_gain = a.gain, !.error = a.raised,
                                     !.adjusts = @ + 1]
    /\ UNCHANGED <<now, zero_cross_count, heater, pid_controller, zc, ceiling, ac, acz, fn, loop, hyst, sd, pulses>>

NextMethods == DetectCall \/ AdjustCall

SpecMethods == Init /\ [][NextMethods]_vars

(* calculate_pid_parameters on its own, on a tuner whose critical_gain and  *)
(* critical_period are given                                                *)

MaxGainSteps == 4
MaxPeriodTens == 3
MaxCalcs == 2

GainInputs == {NoValue} \cup {Some(k * MinCriticalGain) : k \in 1..MaxGainSteps}

PeriodInputs ==
    {NoValue, Some(0)} \cup {Some(k * 10 * UnitsPerSecond) : k \in 1..MaxPeriodTens}

\* the constructor's initial_Kp, initial_Ki, initial_Kd
InitialGainInputs == [Kp : {InitialKp, 2 * InitialKp}, Ki : {0, InitialKp}, Kd : {0}]

InitCalc ==
    /\ InitOthers
    /\ fn = [half |-> 0, duty |-> 0, done |-> FALSE, phase_delay |-> 0]
    /\ \E g \in GainInputs, p \in PeriodInputs, k \in InitialGainInputs :
          tuner = [FreshTuner EXCEPT !.critical_gain = g, !.critical_period = p,
                                     !.Kp = k.Kp, !.Ki = k.Ki, !.Kd = k.Kd]

\* calculate_pid_parameters(); tuner.calls counts the calls
CalculateCall ==
    /\ tuner.calls < MaxCalcs
    /\ tuner' = [ApplyCalculate(tuner) EXCEPT !.calls = @ + 1]
    /\ UNCHANGED <<now, zero_cross_count, heater, pid_controller, zc, ceiling, ac, acz, fn, loop, hyst, sd, pulses>>

NextCalc == CalculateCall

SpecCalc == InitCalc /\ [][NextCalc]_vars

----------------------------------------------------------------------------
(* Properties *)

\* C1: in every reachable state the actuated duty cycle satisfies
\* 0 <= duty_cycle <= max_duty_cycle.
C1_DutyWithinCeiling ==
    0 <= heater.duty_cycle /\ heater.duty_cycle <= heater.max_duty_cycle

\* C2: after set_duty_cycle(x), for every x, the stored duty cycle equals
\* min(x, max_duty_cycle) and is not negative.
C2_StoresMinNeverNegative ==
    [][\A x \in DutyInputs :
          SetDutyCycle(x) =>
              /\ heater'.duty_cycle = Min(x, heater.max_duty_cycle)
              /\ heater'.duty_cycle >= 0]_vars

\* C3: set_duty_cycle never raises an error, whatever the value.
C3_NeverRaises ==
    ~ac.raised

C5_MaxDutyInRange ==
    0 <= heater.max_duty_cycle /\ heater.max_duty_cycle <= 100

C7_SteadyHalfCyclePhaseDelay ==
    [][(/\ ZeroCrossPoll
        /\ zc'.pc = "delay"
        /\ heater.last_zero_cross_time # 0
        /\ now - heater.last_zero_cross_time = EdgeSpacing
        /\ heater.duty_cycle = 50)
       => zc'.phase_delay = PhaseDelay(50, EdgeSpacing)]_vars

\* C8: half_cycle_estimate and the debounce window change only on an edge
\* that is at least the debounce window after the last accepted edge.
C8_EstimateOnlyFromDebouncedEdge ==
    [][(\/ ac'.ac_half_cycle_time # ac.ac_half_cycle_time
        \/ ac'.debounce_time # ac.debounce_time)
       => now - ac.last_zero_cross_time >= ac.debounce_time]_vars

\* C9: an edge observed sooner after the last accepted edge than 10% of the
\* half-cycle estimate derived from earlier edges is rejected: it changes
\* neither last_zero_cross_time nor the stored edge count and fires no pulse.
C9_BounceRejected ==
    [][(/\ ACZeroCrossPoll
        /\ zero_cross_count > acz.previous_count
        /\ ac.last_zero_cross_time # 0
        /\ acz.cycle_time > 0
        /\ now - ac.last_zero_cross_time < DebounceTime(ac.ac_half_cycle_time))
       => /\ ac'.last_zero_cross_time = ac.last_zero_cross_time
          /\ acz'.previous_count = acz.previous_count
          /\ acz'.pc = "poll"]_vars

\* C10: the control pin is asserted, or a pulse is pending, only if the
\* heater was enabled when the edge was handled.
C10_PulseOnlyIfEnabledAtEdge ==
    (heater.control_pin \/ zc.pc \in {"delay", "pulse"}) => zc.edge_state

\* C10 witness: an edge was handled while the heater was off; the heater has
\* since been turned on and no pulse was or is issued for that edge.
C10_Witness ==
    /\ zc.previous_count > 0
    /\ zc.previous_count = zero_cross_count
    /\ ~zc.edge_state
    /\ heater.state
    /\ zc.pc = "poll"
    /\ ~heater.control_pin

\* C11: once the heater is disabled (turn_off() or HEATER_OFF), the task
\* schedules no new pulse: the only pulse still to come is one whose delay
\* was already running, and edges handled while disabled schedule nothing
\* until the heater is enabled again.
C11_NoPulseScheduledWhileDisabled ==
    [][~heater.state => (zc'.pc = "delay" => zc.pc = "delay")]_vars

\* the pulse scheduled before the heater was disabled is issued, and a later
\* edge is already counted behind it
C11_Witness ==
    /\ ~heater.state
    /\ zc.pc = "pulse"
    /\ heater.control_pin
    /\ zero_cross_count > zc.previous_count

\* C12: while the heater is enabled every counted edge gets its own pulse:
\* when the task schedules a pulse, at most one edge counted while enabled
\* is waiting, so no edge counted during a suspension is coalesced.
C12_OnePulsePerCountedEdge ==
    [][(zc.pc = "poll" /\ zc'.pc = "delay") => zc.owed <= 1]_vars

\* The time no edge has been handled for, counted from the start of the task
\* until a first edge is handled.
SinceLastEdge ==
    now - (IF heater.last_zero_cross_time = 0 THEN T0 ELSE heater.last_zero_cross_time)

FaultTimeout == EdgeSpacing * MaxPeriods

\* C13: when no edge has been observed for longer than the fault timeout
\* while the heater is enabled, the driver eventually forces enabled = false.
C13_FaultTimeoutDisables ==
    (heater.state /\ zero_cross_count = zc.previous_count /\ SinceLastEdge > FaultTimeout)
        ~> ~heater.state

\* C14: when the zero-cross task ends on an exception, the heater has been
\* forced off: the flag is clear and the gate pin deasserted at that step.
C14_FatalForcesHeaterOff ==
    [][(zc.pc # "halted" /\ zc'.pc = "halted")
          => (~heater'.state /\ ~heater'.control_pin)]_vars

\* C15: when auto_tune raises, the heater has been taken off the forced
\* step: at that step the flag is clear and the duty cycle is back at 0.
C15_TuningFailureAbortsForcedStep ==
    [][(tuner.pc # "raised" /\ tuner'.pc = "raised")
          => (~heater'.state /\ heater'.duty_cycle = 0)]_vars

C17_FirstDetectionCompletesTuning ==
    [][\A r \in Readings, t \in ClockReadings :
          (r.ok /\ AutoTuneSampleWith(r, t))
             => LET d == DetectOscillations(tuner.oscillation_data, t, r.temp)
                IN  IF d.detected
                    THEN /\ tuner'.pc = "tuned"
                         /\ tuner'.tuning_complete
                         /\ tuner'.critical_period = d.period
                    ELSE tuner'.pc = "sampling"]_vars

TunerForward ==
    {<<"idle", "sampling">>, <<"sampling", "tuned">>, <<"sampling", "raised">>}

\* C18: the tuner only moves forward (Idle, Forcing, Sampling, then Tuned or
\* the raise); a sample is taken only inside the loop, with the heater at
\* the forced step; tuning_complete never reverts and critical_period is
\* not changed once it is set.
C18_TunerMovesForward ==
    [][/\ tuner'.pc # tuner.pc => <<tuner.pc, tuner'.pc>> \in TunerForward
       /\ tuner'.samples > tuner.samples
             => /\ tuner.pc = "sampling"
                /\ heater.duty_cycle = Min(ForceStepSize, heater.max_duty_cycle)
       /\ tuner.tuning_complete
             => /\ tuner'.tuning_complete
                /\ tuner'.critical_period = tuner.critical_period]_vars

\* a sample taken after the step was forced, the heater still at the step
C18_Witness ==
    /\ tuner.samples = 1
    /\ tuner.oscillation_data # <<>>
    /\ heater.duty_cycle = Min(ForceStepSize, heater.max_duty_cycle)
    /\ heater.duty_cycle # 0

\* C19: after any adjust_critical_gain calls from the initial state,
\* critical_gain is a number within [min_critical_gain, max_critical_gain].
C19_CriticalGainWithinBounds ==
    tuner.adjusts > 0
       => /\ tuner.critical_gain.set
          /\ MinCriticalGain <= tuner.critical_gain.val
          /\ tuner.critical_gain.val <= MaxCriticalGain

\* C20: on every call after the first two, detect_oscillations reports a
\* peak exactly when the reading is below the reading of the call before it
\* by more than the threshold, and the period is the time since that call.
C20_DetectsDropFromPrecedingReading ==
    [][(tuner'.calls = tuner.calls + 1 /\ tuner.calls >= 2)
          => LET drop == tuner.last.temp - tuner'.last.temp > OscillationThreshold
             IN  /\ tuner'.detected = drop
                 /\ drop => tuner'.period = Some(tuner'.last.time - tuner.last.time)]_vars

\* the readings 20.0, 20.5, 20.3
Scenario == <<2000, 2050, 2030>>

\* the calls made so far are the first n readings of the scenario, taken at
\* strictly increasing clock readings
ScenarioPrefix(n) ==
    /\ Len(tuner.log) = n
    /\ \A i \in 1..n : tuner.log[i].temp = Scenario[i]
    /\ \A i \in 1..(n - 1) : tuner.log[i].time < tuner.log[i + 1].time

\* C21: on a fresh tuner, readings 20.0, 20.5, 20.3 at strictly increasing
\* clock readings give no detection on the first two calls and a detection
\* on the third, whose period is the time between the second and the third.
C21_ScenarioDetectsOnThird ==
    /\ \A n \in 1..2 : ScenarioPrefix(n) => (~tuner.detected /\ ~tuner.period.set)
    /\ ScenarioPrefix(3)
          => /\ tuner.detected
             /\ tuner.period = Some(tuner.log[3].time - tuner.log[2].time)

C21_Witness ==
    /\ ScenarioPrefix(3)
    /\ tuner.detected
    /\ tuner.period.val > 0

\* C22: calculate_pid_parameters returns Kp = 0.6 * critical_gain,
\* Ki = 2 * Kp / critical_period and Kd = Kp * critical_period / 8 (periods
\* in seconds), and (60, 12, 75) for critical_gain 100, critical_period 10.
C22_ZieglerNicholsGains ==
    (tuner.calls > 0 /\ tuner.result.ok)
       => LET g == tuner.critical_gain.val
              p == tuner.critical_period.val
              q == QuarterMillis(p)
              c == tuner.result
          IN  /\ 10 * c.Kp = 6 * g
              /\ c.Ki * q = 2 * c.Kp * 4000
              /\ 40 * (c.Kp \div 40) = c.Kp
              /\ 800 * c.Kd = (c.Kp \div 40) * q
              /\ (g = 100000 /\ p = 10 * UnitsPerSecond)
                    => (c.Kp = 60000 /\ c.Ki = 12000 /\ c.Kd = 75000)

C22_Witness ==
    /\ tuner.calls > 0
    /\ tuner.critical_gain = Some(100000)
    /\ tuner.critical_period = Some(10 * UnitsPerSecond)
    /\ tuner.result = [ok |-> TRUE, Kp |-> 60000, Ki |-> 12000, Kd |-> 75000]

C24_TunerIsOnlyWriterDuringSession ==
    [][/\ (tuner.pc = "idle" /\ tuner'.pc = "sampling")
             => heater'.duty_cycle = Min(ForceStepSize, heater.max_duty_cycle)
       /\ tuner.pc = "sampling" => heater'.duty_cycle = heater.duty_cycle]_vars

\* a session that replaced the duty cycle left by the temperature task and
\* ran to its end with an edge counted meanwhile
C24_Witness ==
    /\ tuner.pc = "raised"
    /\ heater.duty_cycle = Min(ForceStepSize, heater.max_duty_cycle)
    /\ heater.duty_cycle # 0
    /\ zero_cross_count > zc.previous_count

\* C25: no task blocks the scheduler: while a session is sampling and a
\* counted edge waits for the zero-cross task, the task can take its step.
C25_ZeroCrossRunsWhileSampling ==
    (tuner.pc = "sampling" /\ zc.pc = "poll" /\ zero_cross_count > zc.previous_count)
       => ENABLED TaskZeroCrossPoll

\* C26: a command that becomes pending on the serial channel while the
\* tasks are running is eventually consumed.
C26_PendingCommandConsumed ==
    (loop.serial # "none") ~> (loop.serial = "none")

\* C27: while a counted edge waits for the runnable zero-cross task, no
\* tick of the temperature task is executed before the edge is handled.
C27_ZeroCrossBeforePidTick ==
    [][(TasksRunning /\ zc.pc = "poll" /\ zero_cross_count > zc.previous_count)
          => ~MaintainTick]_vars

\* C28: SET_HEATER_TEMP,v sets the setpoint to v, HEATER_ON and HEATER_OFF
\* set the heater's state, and none of the three changes duty_cycle,
\* max_duty_cycle, the gains or the integral (nor any other field).
HeaterCommands == {cmd \in Commands : cmd.tag \in {"SET_HEATER_TEMP", "HEATER_ON", "HEATER_OFF"}}

C28_HeaterCommandsChangeOwnField ==
    [][\A cmd \in HeaterCommands :
          Handle(cmd) =>
              /\ (cmd.tag = "SET_HEATER_TEMP" /\ cmd.numeric)
                     => pid_controller' = [pid_controller EXCEPT !.setpoint = cmd.arg]
              /\ ~(cmd.tag = "SET_HEATER_TEMP" /\ cmd.numeric)
                     => pid_controller' = pid_controller
              /\ heater' = [heater EXCEPT !.state = CASE cmd.tag = "HEATER_ON" -> TRUE
                                                       [] cmd.tag = "HEATER_OFF" -> FALSE
                                                       [] OTHER -> @]]_vars

C28_Witness ==
    /\ heater.state
    /\ heater.duty_cycle = 50
    /\ heater.max_duty_cycle = 150
    /\ pid_controller.setpoint = 45
    /\ pid_controller.Kp = PidKp

\* C29: a compute call whose clock reading is not above prev_time returns 0
\* and leaves integral, prev_error and prev_time as they were.
C29_NonPositiveElapsedLeavesState ==
    [][(ComputeCall /\ now' - pid_controller.prev_time <= 0)
          => /\ pid_controller'.output = ZeroOutput
             /\ pid_controller'.integral = pid_controller.integral
             /\ pid_controller'.prev_error = pid_controller.prev_error
             /\ pid_controller'.prev_time = pid_controller.prev_time]_vars

\* a call rejected for a clock reading below prev_time, after a call that
\* updated the state
C29_Witness ==
    /\ pid_controller.calls >= 2
    /\ now < pid_controller.prev_time
    /\ pid_controller.output = ZeroOutput
    /\ pid_controller.integral # 0
    /\ pid_controller.prev_error # 0

\* C30: over compute calls with arbitrary clock readings prev_time never
\* decreases, and a call that changes integral, prev_error or prev_time
\* strictly increases prev_time.
PidState(p) == <<p.integral, p.prev_error, p.prev_time>>

C30_PrevTimeMonotone ==
    [][/\ pid_controller'.prev_time >= pid_controller.prev_time
       /\ (ComputeCall /\ PidState(pid_controller') # PidState(pid_controller))
             => pid_controller'.prev_time > pid_controller.prev_time]_vars

\* two updating calls, then a call with an earlier clock reading
C30_Witness ==
    /\ pid_controller.calls = MaxComputes
    /\ pid_controller.prev_time > T0 + EdgeSpacing
    /\ now < pid_controller.prev_time

\* C31: a compute call that finds error 0 and integral 0 returns 0, whatever
\* prev_error earlier calls left.  With error 0 and integral 0 the P and I
\* terms are 0, so the output is 0 exactly when the D term is.
IsZero(o) == o.P = 0 /\ o.I = 0 /\ o.D.num = 0

C31_ZeroErrorZeroIntegralReturnsZero ==
    [][(/\ ComputeCall
        /\ now' > pid_controller.prev_time
        /\ pid_controller'.prev_error = 0
        /\ pid_controller.integral = 0)
          => IsZero(pid_controller'.output)]_vars

\* C32: from integral 0, after n compute calls in a row with the same
\* positive error and the same positive elapsed time dt, the integral term of
\* the output is Ki * error * n * dt.
C32_IntegralTermLinear ==
    [][(ComputeCall /\ pid_controller'.run.n > 0 /\ pid_controller'.run.error > 0)
          => pid_controller'.output.I
                 = pid_controller'.Ki * pid_controller'.run.error
                     * pid_controller'.run.n * pid_controller'.run.dt]_vars

C32_Witness ==
    /\ pid_controller.run.n >= 2
    /\ pid_controller.run.error > 0
    /\ pid_controller.output.I = pid_controller.Ki * pid_controller.integral
    /\ pid_controller.integral = 2 * pid_controller.run.error * pid_controller.run.dt

\* C33: integral changes only in a compute call that is not rejected and in
\* reset_integral: no command, no change of setpoint or gains and no compute
\* call rejected for elapsed <= 0 alters it.
C33_IntegralOnlyByComputeOrReset ==
    [][pid_controller'.integral # pid_controller.integral
          => \/ ComputeCall /\ now' > pid_controller.prev_time
             \/ ResetIntegralCall]_vars

\* a nonzero integral that has survived a new setpoint, new gains and a
\* rejected compute call
C33_Witness ==
    /\ pid_controller.integral # 0
    /\ pid_controller.setpoint # DefaultTemperature
    /\ pid_controller.Kp # PidKp
    /\ pid_controller.resets = 0
    /\ now < pid_controller.prev_time
    /\ pid_controller.output = ZeroOutput

\* C34: reset_integral changes integral only, to 0, and a second call right
\* after the first leaves every field of the controller as the first left it.
PidFields(p) == [p EXCEPT !.calls = 0, !.resets = 0, !.run = 0]

C34_ResetIntegralIdempotent ==
    [][ResetIntegralCall
          => /\ pid_controller'.integral = 0
             /\ PidFields(pid_controller') = PidFields([pid_controller EXCEPT !.integral = 0])
             /\ PidFields(ResetIntegral(pid_controller')) = PidFields(pid_controller')]_vars

\* reset_integral has been called on a controller with integral and
\* prev_error nonzero
C34_Witness ==
    /\ pid_controller.resets > 0
    /\ pid_controller.integral = 0
    /\ pid_controller.prev_error # 0
    /\ pid_controller.prev_time > T0

\* C35: when the tuned gains are assigned to the controller, reset_integral
\* is called, and integral is 0 under the new gains.
C35_GainTransferResetsIntegral ==
    [][TransferGains
          => /\ pid_controller'.resets = pid_controller.resets + 1
             /\ pid_controller'.integral = 0]_vars

\* C36: the heater goes on only on a reading below target - deadband, goes
\* off only on a reading at or above target + deadband, and a reading inside
\* the band leaves it as it was.
Band == TemperatureHysteresis

C36_HysteresisNoChatter ==
    [][hyst'.state # hyst.state
          => IF hyst'.state
             THEN hyst'.temp < (100 * DefaultTemperature) - Band
             ELSE hyst'.temp >= (100 * DefaultTemperature) + Band]_vars

\* C37: send_sensor_data reports the failure of its retries only when the
\* sensor had no data at the end of the waits.
C37_DataWithinRetriesIsLogged ==
    (sd.pc = "idle" /\ sd.outcome = "failed") => ~sd.seen

\* C38: neither control pin is set more often than edges have been counted
\* since its task started (the tasks start with the count at 0), so without
\* a new edge no pulse is fired.
C38_PulsesWithinEdges ==
    /\ pulses.hc <= zc.previous_count
    /\ pulses.ac <= acz.previous_count
    /\ zc.previous_count <= zero_cross_count
    /\ acz.previous_count <= zero_cross_count

C38_Witness ==
    /\ pulses.hc = 2
    /\ zero_cross_count = MaxEdges
    /\ zc.pc = "poll"
    /\ now > heater.last_zero_cross_time + heater.ac_half_cycle_time

\* C39: a control pin is high only while its task is suspended in the pulse;
\* it is low at every other await and once the task has ended.
C39_PinHighOnlyInPulse ==
    /\ heater.control_pin => zc.pc = "pulse"
    /\ ac.control_pin => acz.pc = "pulse"

====
